---- MODULE Spec2Model ----
(***************************************************************************)
(* State-machine model of the P2P Quake WebSocket client:                  *)
(*   - P2PQuakeWebSocketClient (src/src/clients/ws.ts)                     *)
(*   - ReconnectManager and Deduplicator (src/src/utils/reconnect.ts)      *)
(*   - isP2PQuakeEvent (src/src/utils/validator.ts)                        *)
(* Every handler of the client is one action.  A handler is written as an  *)
(* operator from a client-state record to a client-state record, so that   *)
(* the statements of the source keep their order; the action commits the   *)
(* record the handler returns.                                             *)
(***************************************************************************)
EXTENDS Integers, Sequences, FiniteSets, TLC

\* ------------------------------------------------------------- bounds
\* Number of transports that exist at the same time (a transport that has
\* reported close, and whose connect() call is settled, is forgotten).
MaxTransports == 2
\* The same, when the server sends frames and time passes.
MsgTransports == 1
\* Largest value the backoff attempt counter is driven to.
MaxAttempt == 3
\* Largest value of the wall clock.
MaxTime == 3
\* Largest value the attempt counter of a ReconnectManager used alone is driven to.
MaxSchedule == 7

\* -------------------------------------------------- program constants
\* DEFAULT_RECONNECT_CONFIG
initialDelay == 1000
maxDelay == 30000
multiplier == 2
\* Stands for maxAttempts: Infinity (larger than any reachable counter).
Infinity == 1000000
\* deduplicationWindow used by the modelled client, in clock units.
windowMs == 2

\* EVENT_CODES of types/constants.ts
EVENT_CODES == {551, 552, 554, 555, 556, 561, 9611}

Transports == 1..MaxTransports
Ids == {"a", "b"}
\* keys of the emitter that carry lifecycle signals
LifecycleKeys == {"connect", "disconnect", "error", "reconnecting", "data"}

VARIABLES
    ws,                     \* this.ws: 0 is null, else the transport referred to
    intentionalDisconnect,  \* this.intentionalDisconnect
    isConnecting,           \* this.isConnecting
    attempts,               \* ReconnectManager.attempts
    timeout,                \* ReconnectManager.timeout: NoTimer is null, else the armed delay
    timers,                 \* the timers of setTimeout that are pending, each named by its delay
    seenIds,                \* Deduplicator.seenIds: id -> timestamp, -1 is absent
    cleanupInterval,        \* Deduplicator.cleanupInterval is set
    listeners,              \* user listeners of the emitter: key -> sequence of listener names
    onceConnect,            \* connect() calls whose onOpen is registered on 'connect'
    onceError,              \* connect() calls whose onError is registered on 'error'
    promise,                \* outcome of the connect() call that created transport t
    byTimer,                \* pending connect() calls issued by the reconnect timer callback
    readyState,             \* state of each transport
    options,                \* resolved options of the client
    now,                    \* Date.now()
    lastFalse,              \* time of the isDuplicate call that last returned false, per id,
                            \* since the store was last emptied by clear() (history)
    destroyed,              \* destroy() has been called (history)
    uncaught,               \* an exception escaped a handler (history)
    last                    \* what the last step did (history of one step)

vars == <<ws, intentionalDisconnect, isConnecting, attempts, timeout, timers, seenIds,
          cleanupInterval, listeners, onceConnect, onceError, promise, byTimer,
          readyState, options, now, lastFalse, destroyed, uncaught, last>>

\* ------------------------------------------------------------ helpers
\* No timer: the null of ReconnectManager.timeout (a delay is never negative).
NoTimer == -1

Min(a, b) == IF a < b THEN a ELSE b

RECURSIVE Pow(_, _)
Pow(b, e) == IF e = 0 THEN 1 ELSE b * Pow(b, e - 1)

\* A signal of the emitter: its key and arguments (n, d: numbers; err: the
\* kind of error carried; id: the id of the message carried).
Signal(key, n, d, err, id) == [key |-> key, n |-> n, d |-> d, err |-> err, id |-> id]

\* The key a message code is emitted under: String(message.code).
CodeKey(code) == ToString(code)

Keys == LifecycleKeys \cup {CodeKey(c) : c \in EVENT_CODES}

\* The client state a handler works on: the variables, plus what the
\* handler has done so far in this step.
Cur ==
    [ws |-> ws, intentionalDisconnect |-> intentionalDisconnect,
     isConnecting |-> isConnecting, attempts |-> attempts, timeout |-> timeout,
     timers |-> timers,
     seenIds |-> seenIds, cleanupInterval |-> cleanupInterval,
     listeners |-> listeners, onceConnect |-> onceConnect, onceError |-> onceError,
     promise |-> promise, byTimer |-> byTimer,
     readyState |-> readyState, destroyed |-> destroyed, uncaught |-> uncaught,
     dup |-> FALSE,         \* what the last isDuplicate call of this step returned
     emitted |-> <<>>,      \* signals emitted in this step, in order
     at |-> <<>>,           \* the backoff state each of these signals was emitted in
     calls |-> <<>>,        \* user listeners invoked in this step, in order
     micro |-> <<>>,        \* rejections whose .catch reaction is still to run
     thrown |-> FALSE,      \* an exception thrown by a listener is propagating
     created |-> 0,         \* transport created in this step
     armed |-> NoTimer,     \* delay of the timer armed in this step
     result |-> "none",     \* outcome of a connect() call made in this step
     settled |-> {},        \* connect() calls resolved or rejected in this step
     resettled |-> FALSE]   \* resolve or reject was invoked on a settled call in this step

\* ------------------------------------------- ReconnectManager (reconnect.ts)
\* (mutant) getNextDelay without the cap
getNextDelayUncapped(s) ==
    options.initialDelay * Pow(options.multiplier, s.attempts)

getNextDelay(s) ==
    LET exponentialDelay == options.initialDelay * Pow(options.multiplier, s.attempts)
    IN Min(exponentialDelay, options.maxDelay)

\* (mutant) shouldReconnect that allows one attempt more
shouldReconnectInclusive(s) == s.attempts <= options.maxAttempts

shouldReconnect(s) == s.attempts < options.maxAttempts

\* (mutant) cancel() that leaves the timer armed
cancelKeepsTimer(s) == s

cancel(s) ==
    IF s.timeout # NoTimer
    THEN [s EXCEPT !.timers = @ \ {s.timeout}, !.timeout = NoTimer]   \* clearTimeout
    ELSE s

\* (mutant) scheduleReconnect that does not cancel the pending timer
scheduleReconnectWithoutCancel(s) ==
    IF ~shouldReconnect(s) THEN s
    ELSE LET inc == [s EXCEPT !.attempts = @ + 1]
             delay == getNextDelay(inc)
         IN [inc EXCEPT !.timeout = delay, !.timers = @ \cup {delay}, !.armed = delay]

scheduleReconnect(s) ==
    LET c == cancel(s) IN
    IF ~shouldReconnect(c) THEN c
    ELSE LET inc == [c EXCEPT !.attempts = @ + 1]
             delay == getNextDelay(inc)
         IN [inc EXCEPT !.timeout = delay, !.timers = @ \cup {delay}, !.armed = delay]

\* (mutant) reset() that keeps the attempt counter
resetKeepsAttempts(s) == cancel(s)

reset(s) == cancel([s EXCEPT !.attempts = 0])

\* ---------------------------------------------- Deduplicator (reconnect.ts)
\* (mutant) isDuplicate that still counts an entry of age = window as a duplicate
isDuplicateInclusive(s, id) ==
    IF s.seenIds[id] # -1 /\ now - s.seenIds[id] <= windowMs
    THEN [s EXCEPT !.dup = TRUE]
    ELSE [s EXCEPT !.seenIds[id] = now, !.dup = FALSE]

\* isDuplicate(id): the store after the call; its return value is field dup.
isDuplicate(s, id) ==
    IF s.seenIds[id] # -1 /\ now - s.seenIds[id] < windowMs
    THEN [s EXCEPT !.dup = TRUE]
    ELSE [s EXCEPT !.seenIds[id] = now, !.dup = FALSE]

\* (mutant) clear() that forgets nothing
clearKeepsIds(s) == s

clear(s) == [s EXCEPT !.seenIds = [i \in Ids |-> -1]]

\* (mutant) Deduplicator.destroy() that leaves the sweep timer running
dedupDestroyKeepsInterval(s) == clear(s)

dedupDestroy(s) == clear([s EXCEPT !.cleanupInterval = FALSE])

\* (mutant) cleanup() that removes every entry
cleanupRemovesAll(s) == [s EXCEPT !.seenIds = [i \in Ids |-> -1]]

\* cleanup(): the periodic sweep
cleanup(s) ==
    [s EXCEPT !.seenIds = [i \in Ids |->
        IF @[i] # -1 /\ @[i] < now - windowMs THEN -1 ELSE @[i]]]

\* ------------------------------------------------- EventEmitter of the client
\* cleanup() of connect(): both one-shot listeners of call p are removed.
connectCleanup(s, p) ==
    [s EXCEPT !.onceConnect = @ \ {p}, !.onceError = @ \ {p}]

\* onOpen of connect() call p
onOpen(s, p) ==
    LET c == connectCleanup(s, p) IN
    [c EXCEPT !.isConnecting = FALSE,
              !.promise[p] = IF @ = "pending" THEN "resolved" ELSE @,
              !.byTimer = @ \ {p},
              !.settled = IF s.promise[p] = "pending" THEN @ \cup {p} ELSE @,
              !.resettled = @ \/ s.promise[p] # "pending"]

\* onError of connect() call p; a call made by the timer callback has a
\* .catch reaction, which runs as a microtask once the handler returns.
onError(s, p) ==
    LET c == connectCleanup(s, p) IN
    [c EXCEPT !.isConnecting = FALSE,
              !.promise[p] = IF @ = "pending" THEN "rejected" ELSE @,
              !.byTimer = @ \ {p},
              !.settled = IF s.promise[p] = "pending" THEN @ \cup {p} ELSE @,
              !.resettled = @ \/ s.promise[p] # "pending",
              !.micro = IF p \in s.byTimer /\ s.promise[p] = "pending"
                        THEN Append(@, "ConnectionError:failed") ELSE @]

RECURSIVE runOnOpen(_, _)
runOnOpen(s, ps) ==
    IF ps = {} THEN s
    ELSE LET p == CHOOSE x \in ps : \A y \in ps : x <= y
         IN runOnOpen(onOpen(s, p), ps \ {p})

RECURSIVE runOnError(_, _)
runOnError(s, ps) ==
    IF ps = {} THEN s
    ELSE LET p == CHOOSE x \in ps : \A y \in ps : x <= y
         IN runOnError(onError(s, p), ps \ {p})

userCalls(s, key) ==
    [i \in 1..Len(s.listeners[key]) |-> <<key, s.listeners[key][i]>>]

\* The listeners named "T" throw an Error when they are called.
Throwers(ls) == {i \in 1..Len(ls) : ls[i] = "T"}

\* EventEmitter.emit: the listeners of the key run in registration order
\* (the one-shot listeners of connect() were registered after the user's);
\* an 'error' signal nobody listens to is thrown, and an exception thrown by
\* a listener leaves emit at once.
emit(s, sig) ==
    LET e == [s EXCEPT !.emitted = Append(@, sig),
                       !.at = Append(@, [attempts |-> s.attempts, timeout |-> s.timeout,
                                         armed |-> s.armed])]
        ls == s.listeners[sig.key]
    IN
    IF sig.key = "error" /\ ls = <<>> /\ s.onceError = {}
    THEN [e EXCEPT !.uncaught = TRUE]
    ELSE IF Throwers(ls) # {}
    THEN LET i == CHOOSE x \in Throwers(ls) : \A y \in Throwers(ls) : x <= y IN
         [e EXCEPT !.calls = @ \o SubSeq(userCalls(s, sig.key), 1, i), !.thrown = TRUE]
    ELSE LET u == [e EXCEPT !.calls = @ \o userCalls(s, sig.key)] IN
         IF sig.key = "connect" THEN runOnOpen(u, s.onceConnect)
         ELSE IF sig.key = "error" THEN runOnError(u, s.onceError)
         ELSE u

removeAllListeners(s) ==
    [s EXCEPT !.listeners = [k \in Keys |-> <<>>],
              !.onceConnect = {}, !.onceError = {}]

\* The .catch reactions of rejected timer-driven connect() calls:
\* this.emit('error', error).
RECURSIVE drain(_)
drain(s) ==
    IF s.micro = <<>> THEN s
    ELSE drain(emit([s EXCEPT !.micro = Tail(@)],
                    Signal("error", 0, 0, Head(s.micro), "")))

\* ------------------------------------------------------ transports (websocket.ts)
\* What the client can observe of a transport: "unused" (not created yet),
\* "connecting", "open", "closingC" (close() was called on it while it was
\* connecting), "closingO" (close() was called on it while it was open, or
\* its open notification was delivered after close()), "errored" (it has
\* reported an error and will only report close), "erroredU" (the same, and
\* close() had been called on it), "closed".
ReadyStates ==
    {"unused", "connecting", "open", "closingC", "closingO", "errored", "erroredU", "closed"}

\* close() was called on the transport (by disconnect()) and it has not closed yet
UserClosed(rs) == rs \in {"closingC", "closingO", "erroredU"}

\* WebSocketLike.close()
wsClose(rs) ==
    IF rs = "connecting" THEN "closingC"
    ELSE IF rs = "open" THEN "closingO"
    ELSE rs

Unused(s) == {t \in Transports : s.readyState[t] = "unused"}

\* createWebSocket: the next transport
newTransport(s) == CHOOSE t \in Unused(s) : \A u \in Unused(s) : t <= u

\* -------------------------------------------- P2PQuakeWebSocketClient (ws.ts)
isConnected(s) == s.ws # 0 /\ s.readyState[s.ws] = "open"

setupWebSocket(s) ==
    LET t == newTransport(s) IN
    [s EXCEPT !.ws = t, !.readyState[t] = "connecting", !.created = t]

\* (mutant) connect() without the early return for an open client
connectWithoutOpenCheck(s, fromTimer) ==
    IF s.isConnecting
    THEN [s EXCEPT !.result = "rejected:in progress",
                   !.micro = IF fromTimer THEN Append(@, "ConnectionError:in progress")
                             ELSE @]
    ELSE LET f == [s EXCEPT !.isConnecting = TRUE, !.intentionalDisconnect = FALSE]
             w == setupWebSocket(f)
             t == w.created
         IN [w EXCEPT !.onceConnect = @ \cup {t}, !.onceError = @ \cup {t},
                      !.promise[t] = "pending",
                      !.byTimer = IF fromTimer THEN @ \cup {t} ELSE @,
                      !.result = "started"]

\* connect(); fromTimer: the call is the one of the reconnect timer callback,
\* whose rejection is passed to .catch
connect(s, fromTimer) ==
    IF isConnected(s) THEN [s EXCEPT !.result = "resolved"]
    ELSE IF s.isConnecting
    THEN [s EXCEPT !.result = "rejected:in progress",
                   !.micro = IF fromTimer THEN Append(@, "ConnectionError:in progress")
                             ELSE @]
    ELSE LET f == [s EXCEPT !.isConnecting = TRUE, !.intentionalDisconnect = FALSE]
             w == setupWebSocket(f)
             t == w.created
         IN [w EXCEPT !.onceConnect = @ \cup {t}, !.onceError = @ \cup {t},
                      !.promise[t] = "pending",
                      !.byTimer = IF fromTimer THEN @ \cup {t} ELSE @,
                      !.result = "started"]

\* connect() can run: it needs no transport, or one is left within the bound.
CanConnect(s, limit) ==
    isConnected(s) \/ s.isConnecting \/ \E t \in Unused(s) : t <= limit

\* (mutant) disconnect() that empties the dedup store
disconnectClearsStore(s) ==
    LET c == clear(cancel([s EXCEPT !.intentionalDisconnect = TRUE])) IN
    IF c.ws # 0
    THEN [c EXCEPT !.readyState[c.ws] = wsClose(@), !.ws = 0]
    ELSE c

\* (mutant) disconnect() that keeps the transport handle
disconnectKeepsHandle(s) ==
    LET c == cancel([s EXCEPT !.intentionalDisconnect = TRUE]) IN
    IF c.ws # 0
    THEN [c EXCEPT !.readyState[c.ws] = wsClose(@)]
    ELSE c

disconnect(s) ==
    LET c == cancel([s EXCEPT !.intentionalDisconnect = TRUE]) IN
    IF c.ws # 0
    THEN [c EXCEPT !.readyState[c.ws] = wsClose(@), !.ws = 0]
    ELSE c

\* (mutant) destroy() that leaves the listeners registered
destroyKeepsListeners(s) ==
    [cancel(dedupDestroy(disconnect(s))) EXCEPT !.destroyed = TRUE]

destroy(s) ==
    LET d == removeAllListeners(cancel(dedupDestroy(disconnect(s)))) IN
    [d EXCEPT !.destroyed = TRUE]

\* (mutant) handleOpen that does not reset the backoff
handleOpenWithoutReset(s) == emit(s, Signal("connect", 0, 0, "", ""))

\* (mutant) handleOpen that notifies before the backoff is reset
handleOpenNotifiesFirst(s) == reset(emit(s, Signal("connect", 0, 0, "", "")))

handleOpen(s) == emit(reset(s), Signal("connect", 0, 0, "", ""))

handleError(s) == emit(s, Signal("error", 0, 0, "ConnectionError", ""))

\* (mutant) attemptReconnect that does not ask shouldReconnect()
attemptReconnectUnchecked(s) ==
    LET delay == getNextDelay(s)
        attempt == s.attempts + 1
    IN scheduleReconnect(emit(s, Signal("reconnecting", attempt, delay, "", "")))

attemptReconnect(s) ==
    IF ~shouldReconnect(s)
    THEN emit(s, Signal("error", s.attempts, 0, "ReconnectError", ""))
    ELSE LET delay == getNextDelay(s)
             attempt == s.attempts + 1
         IN scheduleReconnect(emit(s, Signal("reconnecting", attempt, delay, "", "")))

\* (mutant) handleClose that reconnects whatever autoReconnect says
handleCloseAlwaysReconnects(s, code) ==
    LET c == emit([s EXCEPT !.ws = 0], Signal("disconnect", code, 0, "", "")) IN
    IF ~c.intentionalDisconnect THEN attemptReconnect(c) ELSE c

\* (mutant) handleClose that reconnects before it notifies
handleCloseReconnectsFirst(s, code) ==
    LET c == [s EXCEPT !.ws = 0]
        r == IF ~c.intentionalDisconnect /\ options.autoReconnect
             THEN attemptReconnect(c) ELSE c
    IN emit(r, Signal("disconnect", code, 0, "", ""))

handleClose(s, code) ==
    LET c == emit([s EXCEPT !.ws = 0], Signal("disconnect", code, 0, "", "")) IN
    IF ~c.intentionalDisconnect /\ options.autoReconnect
    THEN attemptReconnect(c)
    ELSE c

\* the callback attemptReconnect passes to scheduleReconnect, run by the timer
timerCallback(s) ==
    LET f == [s EXCEPT !.timeout = NoTimer] IN
    IF ~f.intentionalDisconnect THEN connect(f, TRUE) ELSE f

\* ------------------------------------------------------------ inbound frames
\* A frame: json (JSON.parse succeeds and yields an object), id ("" when the
\* object has no id field), legacy (its _id field, "" when absent), code
\* (0 when the object has no numeric code), time (it has a string time).
Frame(json, id, legacy, code, time) ==
    [json |-> json, id |-> id, legacy |-> legacy, code |-> code, time |-> time]

NoFrame == Frame(FALSE, "", "", 0, FALSE)

Frames ==
    { Frame(FALSE, "", "", 0, FALSE),        \* not decodable
      Frame(TRUE, "a", "", 551, TRUE),
      Frame(TRUE, "b", "", 552, TRUE),
      Frame(TRUE, "", "a", 551, TRUE),       \* id under the legacy name _id
      Frame(TRUE, "b", "", 9999, TRUE),      \* code outside EVENT_CODES
      Frame(TRUE, "a", "", 0, TRUE) }        \* no code

\* Normalize _id to id
normalizeId(m) ==
    IF m.legacy # "" /\ m.id = "" THEN [m EXCEPT !.id = m.legacy, !.legacy = ""] ELSE m

\* validator.ts
isBasicData(m) == m.id # "" /\ m.code # 0 /\ m.time

\* (mutant) isValidEventCode that accepts every number
isValidEventCodeAnyNumber(code) == code # 0

isValidEventCode(code) == code \in EVENT_CODES

isP2PQuakeEvent(m) == isBasicData(m) /\ isValidEventCode(m.code)

\* (mutant) handleMessage that dispatches a duplicate like a new message
handleMessageDispatchesDuplicate(s, f) ==
    IF ~f.json
    THEN emit(s, Signal("error", 0, 0, "ValidationError:parse", ""))
    ELSE LET message == normalizeId(f) IN
         IF ~isP2PQuakeEvent(message)
         THEN emit(s, Signal("error", 0, 0, "ValidationError:structure", ""))
         ELSE LET d == isDuplicate(s, message.id) IN
              IF message.code \notin options.eventCodes THEN d
              ELSE emit(emit(d, Signal(CodeKey(message.code), message.code, 0, "", message.id)),
                        Signal("data", message.code, 0, "", message.id))

\* (mutant) handleMessage without the event-code filter
handleMessageIgnoresFilter(s, f) ==
    IF ~f.json
    THEN emit(s, Signal("error", 0, 0, "ValidationError:parse", ""))
    ELSE LET message == normalizeId(f) IN
         IF ~isP2PQuakeEvent(message)
         THEN emit(s, Signal("error", 0, 0, "ValidationError:structure", ""))
         ELSE LET d == isDuplicate(s, message.id) IN
              IF d.dup THEN d
              ELSE emit(emit(d, Signal(CodeKey(message.code), message.code, 0, "", message.id)),
                        Signal("data", message.code, 0, "", message.id))

handleMessage(s, f) ==
    IF ~f.json
    THEN emit(s, Signal("error", 0, 0, "ValidationError:parse", ""))
    ELSE LET message == normalizeId(f) IN
         IF ~isP2PQuakeEvent(message)
         THEN emit(s, Signal("error", 0, 0, "ValidationError:structure", ""))
         ELSE LET d == isDuplicate(s, message.id) IN
              IF d.dup THEN d
              ELSE IF message.code \notin options.eventCodes THEN d
              ELSE LET c == emit(d, Signal(CodeKey(message.code), message.code, 0, "", message.id))
                       g == IF c.thrown THEN c
                            ELSE emit(c, Signal("data", message.code, 0, "", message.id))
                   IN \* catch (error): an Error that is no ValidationError
                      IF g.thrown
                      THEN emit([g EXCEPT !.thrown = FALSE],
                                Signal("error", 0, 0, "ValidationError:parse", ""))
                      ELSE g

\* ------------------------------------------------------------------- steps
\* What the step that just ran did, with the facts of the state it ran in.
Last(s, op, t, f) ==
    [op |-> op, t |-> t, frame |-> f,
     emitted |-> s.emitted, at |-> s.at, calls |-> s.calls, created |-> s.created,
     armed |-> s.armed, result |-> s.result, dup |-> s.dup,
     settled |-> s.settled, resettled |-> s.resettled,
     preReadyState |-> IF op \in {"open", "close"} THEN readyState[t] ELSE "none",
     preSeenIds |-> IF op \in {"clear", "dedupDestroy"} THEN seenIds ELSE <<>>,
     preTimeout |-> timeout, preIntentional |-> intentionalDisconnect,
     preAttempt |-> \E u \in Transports : readyState[u] = "connecting"]

\* A transport that has reported close reports nothing more, and a settled
\* connect() call changes no more: the two are forgotten together.
forget(s) ==
    LET dead == {t \in Transports :
                    s.readyState[t] = "closed" /\ s.promise[t] # "pending"} IN
    [s EXCEPT !.readyState = [t \in Transports |-> IF t \in dead THEN "unused" ELSE @[t]],
              !.promise = [t \in Transports |-> IF t \in dead THEN "none" ELSE @[t]]]

\* The handler has returned s: the pending .catch reactions run, and the
\* result becomes the state.
Commit(h, op, t, f) ==
    \E s \in {forget(drain(h))} :
    /\ ws' = s.ws
    /\ intentionalDisconnect' = s.intentionalDisconnect
    /\ isConnecting' = s.isConnecting
    /\ attempts' = s.attempts
    /\ timeout' = s.timeout
    /\ timers' = s.timers
    /\ seenIds' = s.seenIds
    /\ cleanupInterval' = s.cleanupInterval
    /\ listeners' = s.listeners
    /\ onceConnect' = s.onceConnect
    /\ onceError' = s.onceError
    /\ promise' = s.promise
    /\ byTimer' = s.byTimer
    /\ readyState' = s.readyState
    /\ destroyed' = s.destroyed
    /\ uncaught' = (s.uncaught \/ s.thrown)
    /\ last' = Last(s, op, t, f)

\* Configurations of the client the model runs.
Options ==
    { o \in [autoReconnect : BOOLEAN, maxAttempts : {1, Infinity},
              eventCodes : {EVENT_CODES, {551}},
              initialDelay : {initialDelay}, maxDelay : {maxDelay},
              multiplier : {multiplier}] :
        ~o.autoReconnect => o.maxAttempts = Infinity }

\* The user's listeners, registered before connect(): one on every key, or none.
ListenerSets ==
    { [k \in Keys |-> <<"L1">>], [k \in Keys |-> <<>>] }

\* The fields of a client and its utilities after construction.
Fresh ==
    /\ ws = 0
    /\ intentionalDisconnect = FALSE
    /\ isConnecting = FALSE
    /\ attempts = 0
    /\ timeout = NoTimer
    /\ timers = {}
    /\ seenIds = [i \in Ids |-> -1]
    /\ cleanupInterval = TRUE
    /\ onceConnect = {}
    /\ onceError = {}
    /\ promise = [t \in Transports |-> "none"]
    /\ byTimer = {}
    /\ readyState = [t \in Transports |-> "unused"]
    /\ now = 0
    /\ lastFalse = [i \in Ids |-> -1]
    /\ destroyed = FALSE
    /\ uncaught = FALSE
    /\ last = Last(Cur, "init", 0, NoFrame)

Init ==
    /\ listeners \in ListenerSets
    /\ options \in Options
    /\ Fresh

\* The user calls connect().
Connect(limit) ==
    /\ CanConnect(Cur, limit)
    /\ Commit(connect(Cur, FALSE), "connect", 0, NoFrame)
    /\ UNCHANGED <<options, now, lastFalse>>

\* The user calls disconnect().
Disconnect ==
    /\ Commit(disconnect(Cur), "disconnect", ws, NoFrame)
    /\ UNCHANGED <<options, now, lastFalse>>

\* The user calls destroy().
Destroy ==
    /\ Commit(destroy(Cur), "destroy", ws, NoFrame)
    /\ UNCHANGED <<options, now, lastFalse>>

\* Transport t reports open.  The interface orders nothing between close()
\* and an open notification already under way, so a transport closed while
\* connecting may still report it.
TransportOpen(t) ==
    /\ readyState[t] \in {"connecting", "closingC"}
    /\ Commit(handleOpen([Cur EXCEPT
                              !.readyState[t] = IF @ = "connecting" THEN "open"
                                                ELSE "closingO"]),
              "open", t, NoFrame)
    /\ UNCHANGED <<options, now, lastFalse>>

\* Transport t delivers a frame.
TransportMessage(t, f) ==
    /\ readyState[t] \in {"open", "closingO"}
    /\ Commit(handleMessage(Cur, f), "message", t, f)
    /\ UNCHANGED <<options, now, lastFalse>>

\* Transport t reports an error; after it, it only reports close.
TransportError(t) ==
    /\ readyState[t] \in {"connecting", "open", "closingC", "closingO"}
    /\ Commit(handleError([Cur EXCEPT !.readyState[t] =
                               IF UserClosed(@) THEN "erroredU" ELSE "errored"]),
              "error", t, NoFrame)
    /\ UNCHANGED <<options, now, lastFalse>>

\* Transport t reports close.
TransportClose(t, code) ==
    /\ readyState[t] \notin {"unused", "closed"}
    /\ attempts < MaxAttempt \/ intentionalDisconnect \/ ~options.autoReconnect
    /\ Commit(handleClose([Cur EXCEPT !.readyState[t] = "closed"], code),
              "close", t, NoFrame)
    /\ UNCHANGED <<options, now, lastFalse>>

\* The reconnect timer expires.
TimerFire ==
    /\ intentionalDisconnect \/ CanConnect(Cur, MaxTransports)
    /\ \E h \in timers :
          Commit(timerCallback([Cur EXCEPT !.timers = @ \ {h}]), "timer", 0, NoFrame)
    /\ UNCHANGED <<options, now, lastFalse>>

\* The sweep timer of the Deduplicator expires.
Sweep ==
    /\ cleanupInterval
    /\ Commit(cleanup(Cur), "sweep", 0, NoFrame)
    /\ UNCHANGED <<options, now, lastFalse>>

\* Time passes.
Tick ==
    /\ now < MaxTime
    /\ now' = now + 1
    /\ last' = Last(Cur, "tick", 0, NoFrame)
    /\ UNCHANGED <<ws, intentionalDisconnect, isConnecting, attempts, timeout, timers, seenIds,
                   cleanupInterval, listeners, onceConnect, onceError, promise, byTimer,
                   readyState, options, lastFalse, destroyed, uncaught>>

\* The process runs: no exception has escaped a handler (an uncaught
\* exception or an unhandled rejection ends the process).
Running == ~uncaught

Undecodable == Frame(FALSE, "", "", 0, FALSE)

\* The client and its transports; the server sends nothing the client can decode.
Next ==
    \/ Running /\ Connect(MaxTransports)
    \/ Running /\ Disconnect
    \/ Running /\ Destroy
    \/ Running /\ \E t \in Transports : TransportOpen(t)
    \/ Running /\ \E t \in Transports : TransportMessage(t, Undecodable)
    \/ Running /\ \E t \in Transports : TransportError(t)
    \/ Running /\ \E t \in Transports : TransportClose(t, 1006)
    \/ Running /\ TimerFire

\* The event-code filter plays no part when no frame can be decoded; the
\* user has registered listeners (destroy() removes them).
InitLife ==
    /\ Init
    /\ options.eventCodes = EVENT_CODES
    /\ listeners["error"] # <<>>

Spec == InitLife /\ [][Next]_vars

\* The client with a server that sends frames, while time passes; the user
\* reconnects by hand (autoReconnect is off).
InitMsg ==
    /\ Init
    /\ ~options.autoReconnect
    /\ listeners["error"] # <<>>

NextMsg ==
    \/ Running /\ Connect(MsgTransports)
    \/ Running /\ Disconnect
    \/ Running /\ Destroy
    \/ Running /\ \E t \in Transports : TransportOpen(t)
    \/ Running /\ \E t \in Transports, f \in Frames : TransportMessage(t, f)
    \/ Running /\ \E t \in Transports : TransportClose(t, 1006)
    \/ Running /\ Sweep
    \/ Tick

SpecMsg == InitMsg /\ [][NextMsg]_vars

\* The same, with a user listener that throws: the second listener of every
\* message code, or the first listener of 'data'.
ThrowingListeners ==
    { [k \in Keys |-> IF k \in LifecycleKeys THEN <<"L1">> ELSE <<"L1", "T", "L2">>],
      [k \in Keys |-> IF k = "data" THEN <<"T", "L1">> ELSE <<"L1">>] }

InitThrow ==
    /\ listeners \in ThrowingListeners
    /\ options \in Options
    /\ ~options.autoReconnect
    /\ Fresh

SpecThrow == InitThrow /\ [][NextMsg]_vars

\* The Deduplicator alone: calls of isDuplicate, sweeps, and time passing.
DedupCall(id) ==
    /\ Commit(isDuplicate(Cur, id), "isDuplicate", 0, Frame(TRUE, id, "", 0, FALSE))
    /\ lastFalse' = IF isDuplicate(Cur, id).dup THEN lastFalse
                    ELSE [lastFalse EXCEPT ![id] = now]
    /\ UNCHANGED <<options, now>>

NextDedup ==
    \/ \E id \in Ids : DedupCall(id)
    \/ Sweep
    \/ Tick

SpecDedup == Init /\ [][NextDedup]_vars

\* The Deduplicator alone, with its clear() and destroy() as well.
DedupClear ==
    /\ Commit(clear(Cur), "clear", 0, NoFrame)
    /\ lastFalse' = [i \in Ids |-> -1]
    /\ UNCHANGED <<options, now>>

DedupDestroy ==
    /\ Commit(dedupDestroy(Cur), "dedupDestroy", 0, NoFrame)
    /\ lastFalse' = [i \in Ids |-> -1]
    /\ UNCHANGED <<options, now>>

NextDedupClear ==
    \/ \E id \in Ids : DedupCall(id)
    \/ Sweep
    \/ Tick
    \/ DedupClear
    \/ DedupDestroy

SpecDedupClear == Init /\ [][NextDedupClear]_vars

\* A ReconnectManager alone, under several configurations: the calls of
\* its methods, and its timer running the callback it was given.
ReconnectConfigs ==
    [autoReconnect : {TRUE}, maxAttempts : {1, 5, Infinity},
     eventCodes : {EVENT_CODES},
     initialDelay : {initialDelay}, maxDelay : {maxDelay, 5000},
     multiplier : {0, 1, multiplier}]

InitBackoff ==
    /\ listeners = [k \in Keys |-> <<>>]
    /\ options \in ReconnectConfigs
    /\ Fresh

\* scheduleReconnect(callback)
ScheduleReconnect ==
    /\ attempts < MaxSchedule
    /\ Commit(scheduleReconnect(Cur), "scheduleReconnect", 0, NoFrame)
    /\ UNCHANGED <<options, now, lastFalse>>

\* reset()
Reset ==
    /\ Commit(reset(Cur), "reset", 0, NoFrame)
    /\ UNCHANGED <<options, now, lastFalse>>

\* cancel()
Cancel ==
    /\ Commit(cancel(Cur), "cancel", 0, NoFrame)
    /\ UNCHANGED <<options, now, lastFalse>>

\* the timer expires: this.timeout = null; callback()
Expire ==
    /\ \E h \in timers :
          Commit([Cur EXCEPT !.timers = @ \ {h}, !.timeout = NoTimer], "expire", 0, NoFrame)
    /\ UNCHANGED <<options, now, lastFalse>>

\* getNextDelay(), the value it returns recorded as the result of the call
GetNextDelay ==
    /\ Commit([Cur EXCEPT !.result = ToString(getNextDelay(Cur))], "getNextDelay", 0, NoFrame)
    /\ UNCHANGED <<options, now, lastFalse>>

\* shouldReconnect()
ShouldReconnect ==
    /\ Commit([Cur EXCEPT !.result = IF shouldReconnect(Cur) THEN "true" ELSE "false"],
              "shouldReconnect", 0, NoFrame)
    /\ UNCHANGED <<options, now, lastFalse>>

NextBackoff ==
    \/ ScheduleReconnect
    \/ Reset
    \/ Cancel
    \/ Expire
    \/ GetNextDelay
    \/ ShouldReconnect

SpecBackoff == InitBackoff /\ [][NextBackoff]_vars

\* ------------------------------------------------------------------ claims
Emitted(key) == \E i \in 1..Len(last.emitted) : last.emitted[i].key = key

\* C1: after disconnect(), the close notification of the transport it closed
\* never arms a reconnect timer and never emits 'reconnecting', whenever it
\* is delivered (also after a later connect()).
C1_CloseAfterDisconnectNoReconnect ==
    last.op = "close" /\ UserClosed(last.preReadyState)
        => last.armed = NoTimer /\ ~Emitted("reconnecting")

\* C2: disconnect() while a reconnect timer is pending cancels it: as long as
\* the user-requested flag is set no timer is pending, and a transport is
\* created by a step other than an explicit connect() only with the flag clear.
C2_DisconnectStopsReconnect ==
    /\ intentionalDisconnect => timeout = NoTimer
    /\ last.created # 0 /\ last.op # "connect" => ~last.preIntentional

\* disconnect() was called while a reconnect timer was pending
C2_Witness ==
    last.op = "disconnect" /\ last.preTimeout # NoTimer /\ timeout = NoTimer

\* C3: a call of isDuplicate(id) returns true if and only if it comes less
\* than the window after the call that last returned false for that id (so
\* the first call for an id returns false).
C3_DuplicateIffWithinWindow ==
    [][\A id \in Ids :
         last'.op = "isDuplicate" /\ last'.frame.id = id
            => (last'.dup <=> (lastFalse[id] # -1 /\ now - lastFalse[id] < windowMs))]_vars

\* a later call for an id, after time has passed, answered "duplicate"
C3_Witness ==
    /\ last.op = "isDuplicate" /\ last.dup
    /\ now > lastFalse[last.frame.id]

\* the frame is decodable and passes the structural validation
ValidFrame(f) == f.json /\ isP2PQuakeEvent(normalizeId(f))

\* the store holds the id with an age below the window
SeenInWindow(id) == seenIds[id] # -1 /\ now - seenIds[id] < windowMs

\* C4: a valid frame whose id the store has seen within the window reaches no
\* listener and produces no signal (no error either).
C4_DuplicateFrameDropped ==
    [][\A f \in Frames :
         /\ last'.op = "message" /\ last'.frame = f
         /\ ValidFrame(f) /\ SeenInWindow(normalizeId(f).id)
         => last'.calls = <<>> /\ last'.emitted = <<>>]_vars

\* a valid frame was delivered a second time within the window, while the
\* user listens to its code
C4_Witness ==
    /\ last.op = "message" /\ ValidFrame(last.frame) /\ last.dup
    /\ last.frame.code \in options.eventCodes
    /\ listeners[CodeKey(last.frame.code)] # <<>>

\* C5: while a connect attempt is in progress (its transport has reported
\* neither open nor error), a further connect() is rejected as already in
\* progress and creates no transport.
C5_SecondConnectRejected ==
    last.op = "connect" /\ last.preAttempt
        => last.result = "rejected:in progress" /\ last.created = 0

\* C6: connect() on an open client resolves at once, creates no transport
\* and changes nothing of the client.
C6_ConnectWhileOpenIsNoop ==
    [][isConnected(Cur) /\ last'.op = "connect"
         => /\ last'.result = "resolved" /\ last'.created = 0
            /\ UNCHANGED <<ws, intentionalDisconnect, isConnecting, attempts, timeout, timers,
                           seenIds, cleanupInterval, listeners, onceConnect, onceError,
                           promise, byTimer, readyState, options>>]_vars

\* connect() was called on an open client
C6_Witness ==
    last.op = "connect" /\ last.result = "resolved" /\ isConnected(Cur)

\* C7: a connect() call is settled at most once, by the open or error
\* notification of its own transport, and from then on none of its one-shot
\* listeners is registered.
C7_SettledOnceByOwnNotification ==
    /\ \A p \in last.settled : last.op \in {"open", "error"} /\ last.t = p
    /\ ~last.resettled
    /\ \A p \in Transports : promise[p] # "pending" => p \notin onceConnect \cup onceError

\* C8: no connect() call stays pending for ever: never is a call pending
\* whose transport has reported close and whose one-shot listeners are gone
\* (nothing is left that could settle it).
C8_NoConnectPendingForever ==
    \A t \in Transports :
        ~(/\ promise[t] = "pending"
          /\ readyState[t] = "closed"
          /\ t \notin onceConnect \cup onceError)

\* C9: an open notification of a transport that disconnect() or destroy()
\* closed while it was connecting emits no 'connect' signal, settles no
\* connect() call and does not make the client open.
C9_LateOpenIgnored ==
    last.op = "open" /\ last.preReadyState = "closingC"
        => ~Emitted("connect") /\ last.settled = {} /\ ~isConnected(Cur)

\* C10: once destroy() was called, no step creates a transport or arms a
\* reconnect timer.
C10_DestroyedIsTerminal ==
    destroyed => last.created = 0 /\ last.armed = NoTimer

\* C11: after destroy() no listener is registered under any key (message
\* codes and lifecycle names, the one-shot listeners of connect() included),
\* and no step after destroy() calls a listener the user had registered.
C11_DestroyClearsListeners ==
    /\ last.op = "destroy" =>
          /\ \A k \in Keys : listeners[k] = <<>>
          /\ onceConnect = {} /\ onceError = {}
    /\ destroyed => last.calls = <<>>

\* a signal was emitted after destroy()
C11_Witness ==
    destroyed /\ last.op = "close" /\ Emitted("disconnect")

\* C12: when destroy() returns, no reconnect timer and no sweep timer is
\* pending (so a timer armed before destroy() never runs its callback), and
\* the sweep timer is never started again.
C12_DestroyStopsTimers ==
    /\ last.op = "destroy" => timeout = NoTimer /\ ~cleanupInterval
    /\ destroyed => ~cleanupInterval

\* destroy() was called while a reconnect timer was pending
C12_Witness ==
    last.op = "destroy" /\ last.preTimeout # NoTimer /\ timeout = NoTimer

\* C13: a close that was not requested, with autoReconnect on and the attempt
\* counter equal to maxAttempts, emits exactly one ReconnectError carrying
\* that count and no 'reconnecting' signal, arms no timer, and leaves the
\* client without a transport and without a pending timer (nothing but an
\* explicit connect() gives it a transport again).
C13_ExhaustedStaysIdle ==
    [][/\ last'.op = "close" /\ ~intentionalDisconnect /\ options.autoReconnect
       /\ attempts = options.maxAttempts
       => /\ \E i \in 1..Len(last'.emitted) :
                /\ last'.emitted[i] = Signal("error", attempts, 0, "ReconnectError", "")
                /\ \A j \in 1..Len(last'.emitted) :
                       last'.emitted[j].err = "ReconnectError" => j = i
          /\ \A j \in 1..Len(last'.emitted) : last'.emitted[j].key # "reconnecting"
          /\ last'.armed = NoTimer
          /\ ws' = 0
          /\ timeout' = NoTimer]_vars

\* the delay getNextDelay() returns at attempt count n
DelayAt(n) == getNextDelay([Cur EXCEPT !.attempts = n])

\* the configuration is DEFAULT_RECONNECT_CONFIG, whatever maxAttempts is
DefaultDelays ==
    /\ options.initialDelay = initialDelay
    /\ options.maxDelay = maxDelay
    /\ options.multiplier = multiplier

\* the delays of the default configuration at the attempt counts 0..6
DelaySequence == <<1000, 2000, 4000, 8000, 16000, 30000, 30000>>

C15_ShouldReconnectBelowMax ==
    /\ shouldReconnect(Cur) <=> attempts < options.maxAttempts
    /\ attempts <= options.maxAttempts
    /\ options.maxAttempts = 5 => (shouldReconnect(Cur) <=> attempts \in 0..4)
    /\ options.maxAttempts = Infinity => shouldReconnect(Cur)
    /\ last.op = "scheduleReconnect" /\ last.armed = NoTimer => ~shouldReconnect(Cur)

\* scheduleReconnect() was called after five reconnects had been scheduled
C15_Witness ==
    /\ options.maxAttempts = 5 /\ attempts = 5
    /\ last.op = "scheduleReconnect" /\ last.armed = NoTimer

\* C16: the delay a 'reconnecting' signal carries is the delay the reconnect
\* timer is armed with in the same step, and the attempt number it carries
\* is the attempt counter once the timer is armed.
C16_ReconnectingCarriesArmedDelay ==
    \A i \in 1..Len(last.emitted) :
        last.emitted[i].key = "reconnecting"
            => last.emitted[i].d = last.armed /\ last.emitted[i].n = attempts

\* C17: under the default configuration the k-th consecutive reconnect timer
\* since the last open is armed with min(initialDelay * multiplier^(k-1),
\* maxDelay): 1s, 2s, 4s, ... (k is the attempt counter once it is armed).
C17_FirstReconnectWaitsInitialDelay ==
    last.armed # NoTimer /\ DefaultDelays
        => last.armed = Min(options.initialDelay * Pow(options.multiplier, attempts - 1),
                            options.maxDelay)

\* C18: a decoded frame whose code is missing or outside EVENT_CODES calls
\* no listener of a message code and none of 'data', and produces exactly
\* one signal: a ValidationError under the error key.
C18_UnknownCodeOnlyValidationError ==
    last.op = "message" /\ last.frame.json /\ last.frame.code \notin EVENT_CODES
        => /\ \A i \in 1..Len(last.calls) : last.calls[i][1] = "error"
           /\ last.emitted = <<Signal("error", 0, 0, "ValidationError:structure", "")>>

\* a frame with a code outside EVENT_CODES arrived while the user listens
C18_Witness ==
    /\ last.op = "message" /\ last.frame.json /\ last.frame.code = 9999
    /\ last.calls = <<<<"error", "L1">>>>

\* C19: a frame that fails decoding or validation produces error signals
\* only, closes no transport, and leaves the transport handle, the
\* connection flags, the backoff state and the dedup store as they were.
C19_InvalidFrameChangesNothing ==
    [][last'.op = "message" /\ ~ValidFrame(last'.frame)
         => /\ \A i \in 1..Len(last'.emitted) : last'.emitted[i].key = "error"
            /\ \A t \in Transports :
                   readyState[t] \in {"open", "closingO"} => readyState'[t] = readyState[t]
            /\ UNCHANGED <<ws, intentionalDisconnect, isConnecting, attempts, timeout,
                           seenIds, cleanupInterval>>]_vars

\* C20: when a new valid frame that passes the filter is dispatched, every
\* listener of its code and every listener of 'data' is called, also when
\* one of them throws; the failure is emitted under the error key and no
\* exception escapes.
C20_ThrowingListenerIsolated ==
    /\ last.op = "message" /\ ValidFrame(last.frame) /\ ~last.dup
    /\ normalizeId(last.frame).code \in options.eventCodes
    => /\ \A k \in {CodeKey(normalizeId(last.frame).code), "data"} :
              \A i \in 1..Len(listeners[k]) :
                  \E j \in 1..Len(last.calls) : last.calls[j] = <<k, listeners[k][i]>>
       /\ (\E j \in 1..Len(last.calls) : last.calls[j][2] = "T") => Emitted("error")
       /\ ~uncaught

\* a valid frame that is no duplicate and passes the event-code filter was delivered
Dispatched ==
    /\ last.op = "message" /\ ValidFrame(last.frame) /\ ~last.dup
    /\ normalizeId(last.frame).code \in options.eventCodes

\* C21: for a valid frame that is no duplicate and passes the filter, the
\* listeners of exactly its code are called in registration order, then the
\* listeners of 'data' in registration order, each once, and no listener of
\* another message code.
C21_ListenersInRegistrationOrder ==
    Dispatched =>
        LET k == CodeKey(normalizeId(last.frame).code)
            expected == userCalls(Cur, k) \o userCalls(Cur, "data")
        IN /\ Len(last.calls) >= Len(expected)
           /\ SubSeq(last.calls, 1, Len(expected)) = expected
           /\ \A j \in (Len(expected) + 1)..Len(last.calls) : last.calls[j][1] = "error"

\* C22: with an allow-list of event codes, a valid frame whose code is not
\* in the list calls no listener and emits nothing (no error either), and a
\* new valid frame whose code is in the list is emitted under its code and
\* under 'data'.
C22_FilteredFrameSilentlyDropped ==
    last.op = "message" /\ ValidFrame(last.frame) =>
        LET m == normalizeId(last.frame) IN
        /\ m.code \notin options.eventCodes => last.calls = <<>> /\ last.emitted = <<>>
        /\ m.code \in options.eventCodes /\ ~last.dup =>
              last.emitted = << Signal(CodeKey(m.code), m.code, 0, "", m.id),
                               Signal("data", m.code, 0, "", m.id) >>

\* a new valid frame with a code outside the allow-list arrived while the
\* user listens to that code
C22_Witness ==
    /\ last.op = "message" /\ ValidFrame(last.frame) /\ ~last.dup
    /\ last.frame.code \notin options.eventCodes
    /\ listeners[CodeKey(last.frame.code)] # <<>>
    /\ last.calls = <<>>

\* C23: no exception escapes a handler, whatever the calls and notifications.
C23_NoUncaughtException == ~uncaught

\* C24: when 'connect' is emitted the attempt counter is 0 and no reconnect
\* timer is pending.
C24_ConnectedAfterBackoffReset ==
    /\ \A i \in 1..Len(last.emitted) :
           last.emitted[i].key = "connect"
               => last.at[i].attempts = 0 /\ last.at[i].timeout = NoTimer
    /\ Emitted("connect") => timers = {}

\* a transport opened while a reconnect timer was pending
C24_Witness ==
    last.op = "open" /\ Emitted("connect") /\ last.preTimeout # NoTimer

\* C25: a close notification emits 'disconnect' with the close code first:
\* before the reconnect timer is armed and before 'reconnecting' or the
\* ReconnectError of that close.
C25_DisconnectedBeforeReconnect ==
    last.op = "close" =>
        /\ Len(last.emitted) >= 1
        /\ last.emitted[1] = Signal("disconnect", 1006, 0, "", "")
        /\ last.at[1].armed = NoTimer
        /\ \A i \in 2..Len(last.emitted) : last.emitted[i].key # "disconnect"

\* a close armed the reconnect timer
C25_Witness ==
    last.op = "close" /\ last.armed # NoTimer /\ Emitted("reconnecting")

\* C26: a connect() that follows disconnect() starts a new transport attempt,
\* in whatever state disconnect() was called.
C26_ConnectAfterDisconnectStarts ==
    [][last.op = "disconnect" /\ last'.op = "connect"
         => last'.result = "started" /\ last'.created # 0]_vars

\* C27: when disconnect() or destroy() returns, the transport handle is
\* cleared, the client is not connected and no reconnect timer is pending,
\* although the transport has not reported close.
C27_DisconnectIsSynchronous ==
    last.op \in {"disconnect", "destroy"} =>
        /\ ws = 0 /\ ~isConnected(Cur)
        /\ timeout = NoTimer /\ timers = {}

\* disconnect() was called on an open client, whose transport is still closing
C27_Witness ==
    /\ last.op = "disconnect" /\ last.t # 0
    /\ readyState[last.t] = "closingO" /\ ws = 0

\* C28: clear() and destroy() of the Deduplicator leave the store as a newly
\* constructed one: it holds no id, and from then on isDuplicate answers as
\* for a new store (true exactly within the window of the last call that
\* returned false since the store was emptied).
C28_ClearedStoreIsNew ==
    [][/\ last'.op \in {"clear", "dedupDestroy"} => seenIds' = [i \in Ids |-> -1]
       /\ last'.op = "dedupDestroy" => ~cleanupInterval'
       /\ \A id \in Ids :
              last'.op = "isDuplicate" /\ last'.frame.id = id
                 => (last'.dup <=> (lastFalse[id] # -1 /\ now - lastFalse[id] < windowMs))]_vars

\* the store was emptied while it held an id seen within the window
C28_Witness ==
    /\ last.op \in {"clear", "dedupDestroy"}
    /\ \E id \in Ids :
          /\ last.preSeenIds[id] # -1 /\ now - last.preSeenIds[id] < windowMs
          /\ seenIds[id] = -1

\* C29: scheduleReconnect() cancels the pending timer; when shouldReconnect()
\* is false it arms nothing and keeps the counter, otherwise it adds one to
\* the counter and arms one timer with min(initialDelay * multiplier^attempt,
\* maxDelay) of the incremented attempt.  At most one timer is pending, it is
\* the one the manager refers to (a superseded or cancelled timer is pending
\* no more), and a timer that has run its callback is pending no more.
C29_ScheduleArmsOneTimer ==
    [][/\ last'.op = "scheduleReconnect" =>
            IF attempts < options.maxAttempts
            THEN /\ attempts' = attempts + 1
                 /\ timeout' = Min(options.initialDelay * Pow(options.multiplier, attempts + 1),
                                   options.maxDelay)
                 /\ timers' = {timeout'} /\ last'.armed = timeout'
            ELSE /\ attempts' = attempts
                 /\ timeout' = NoTimer /\ timers' = {} /\ last'.armed = NoTimer
       /\ timers' \subseteq {timeout'}
       /\ last'.op = "expire" => timers' = {} /\ timeout' = NoTimer]_vars

\* scheduleReconnect() was called while a timer was pending, and armed another
C29_Witness ==
    last.op = "scheduleReconnect" /\ last.preTimeout # NoTimer /\ last.armed # NoTimer

\* C30: reset() sets the counter to 0 and cancels the pending timer; cancel()
\* cancels the pending timer and keeps the counter; getNextDelay() and
\* shouldReconnect() change neither.
C30_ResetAndCancelEffects ==
    [][/\ last'.op = "reset" => attempts' = 0 /\ timeout' = NoTimer /\ timers' = {}
       /\ last'.op = "cancel" => attempts' = attempts /\ timeout' = NoTimer /\ timers' = {}
       /\ last'.op \in {"getNextDelay", "shouldReconnect"}
             => UNCHANGED <<attempts, timeout, timers>>]_vars

\* reset() was called while a timer was pending
C30_Witness ==
    last.op = "reset" /\ last.preTimeout # NoTimer /\ attempts = 0 /\ timers = {}

\* C31: in the client the attempt counter changes only in two ways: a
\* transport open notification sets it to 0, and a step that arms a
\* reconnect timer adds exactly one; every other call or notification
\* (disconnect(), destroy(), connect(), the timer callback, close, error and
\* message notifications that arm no timer) leaves it unchanged.
C31_CounterResetOnlyOnOpen ==
    [][/\ last'.op = "open" => attempts' = 0
       /\ last'.op # "open" /\ last'.armed # NoTimer => attempts' = attempts + 1
       /\ last'.op # "open" /\ last'.armed = NoTimer => attempts' = attempts]_vars

\* a second consecutive reconnect timer was armed
C31_Witness ==
    last.op = "close" /\ last.armed # NoTimer /\ attempts = 2

\* C32: the sweep removes only entries whose age is greater than the window,
\* so it changes the answer of no isDuplicate call, and after it no entry
\* older than the window is left.
C32_SweepRemovesOnlyExpired ==
    [][last'.op = "sweep" =>
         \A id \in Ids :
            /\ seenIds'[id] # seenIds[id]
                  => seenIds'[id] = -1 /\ now - seenIds[id] > windowMs
            /\ seenIds'[id] # -1 => now - seenIds'[id] <= windowMs
            /\ isDuplicate([Cur EXCEPT !.seenIds = seenIds'], id).dup
                  = isDuplicate(Cur, id).dup]_vars

\* a sweep removed an entry
C32_Witness ==
    /\ last.op = "sweep"
    /\ \E id \in Ids : lastFalse[id] # -1 /\ seenIds[id] = -1

\* C33: with autoReconnect off a close notification emits 'disconnect' and
\* nothing else, arms no reconnect timer and creates no transport.
C33_NoAutoReconnectNoTimer ==
    last.op = "close" /\ ~options.autoReconnect
        => /\ last.emitted = <<Signal("disconnect", 1006, 0, "", "")>>
           /\ last.armed = NoTimer /\ timers = {}
           /\ last.created = 0

\* an open transport closed, not on request, with autoReconnect off
C33_Witness ==
    /\ last.op = "close" /\ ~options.autoReconnect
    /\ ~last.preIntentional /\ last.preReadyState = "open"

\* a transport the client created has not reported close yet
Alive(t) == readyState[t] \notin {"unused", "closed"}

\* C34: once a close has started the reconnect cycle (autoReconnect on,
\* attempts remaining, neither disconnect() nor destroy() in effect), the
\* client is never left with no transport, no pending reconnect timer and no
\* exhaustion error: a timer is pending or a transport attempt is under way.
C34_ReconnectCycleContinues ==
    /\ ~destroyed /\ ~intentionalDisconnect /\ options.autoReconnect
    /\ attempts >= 1 /\ attempts < options.maxAttempts
    => timers # {} \/ \E t \in Transports : Alive(t)

\* C35: at most one transport is connecting or open at a time, and the
\* handle of the client refers to the transport that is open (so a close of
\* an earlier transport does not clear it).
C35_SingleCurrentTransport ==
    /\ Cardinality({t \in Transports : readyState[t] \in {"connecting", "open"}}) <= 1
    /\ \A t \in Transports : readyState[t] = "open" => ws = t

\* C36: the attempt counter stays within 0..maxAttempts, and every
\* 'reconnecting' signal carries the next number: one more than the counter
\* before it, which is the counter after it, and at most maxAttempts.
C36_AttemptsWithinMax ==
    /\ [](attempts >= 0 /\ attempts <= options.maxAttempts)
    /\ [][\A i \in 1..Len(last'.emitted) :
             last'.emitted[i].key = "reconnecting"
                => /\ last'.emitted[i].n = attempts + 1
                   /\ attempts' = attempts + 1
                   /\ last'.emitted[i].n <= options.maxAttempts]_vars

\* the last reconnect that maxAttempts allows was announced
C36_Witness ==
    /\ options.maxAttempts = 1 /\ attempts = options.maxAttempts
    /\ last.op = "close" /\ Emitted("reconnecting")

\* C37: the dedup store outlives connections: connect(), disconnect() and
\* the open and close notifications leave it as it is, an entry disappears
\* only by destroy() or by the sweep; a frame that fails decoding or
\* validation leaves the store unchanged, and a new valid frame is recorded
\* also when the event-code filter drops it; a valid frame whose id the store
\* holds within the window calls no listener.
C37_StoreSurvivesReconnect ==
    [][/\ last'.op \in {"connect", "disconnect", "open", "close"} => seenIds' = seenIds
       /\ last'.op = "message" /\ ValidFrame(last'.frame)
             /\ SeenInWindow(normalizeId(last'.frame).id)
             => last'.dup /\ last'.calls = <<>> /\ seenIds' = seenIds
       /\ (\E id \in Ids : seenIds[id] # -1 /\ seenIds'[id] = -1)
             => last'.op \in {"destroy", "sweep"}
       /\ last'.op = "message" /\ ~ValidFrame(last'.frame) => seenIds' = seenIds
       /\ last'.op = "message" /\ ValidFrame(last'.frame) /\ ~last'.dup
             => seenIds'[normalizeId(last'.frame).id] = now]_vars

\* a transport opened while the store held an id seen within the window on
\* an earlier connection
C37_Witness ==
    last.op = "open" /\ \E id \in Ids : SeenInWindow(id)

\* C38: when the reconnect timer fires while an explicit connect() is still
\* connecting, that call stays pending and the attempt stays in progress.
C38_TimerLeavesExplicitConnect ==
    [][last'.op = "timer" =>
         \A p \in Transports :
            promise[p] = "pending" /\ p \notin byTimer /\ readyState[p] = "connecting"
                => promise'[p] = "pending" /\ isConnecting']_vars

\* C39: a frame delivered by a transport that disconnect() or destroy() has
\* closed calls no listener.
C39_NoDispatchAfterDisconnect ==
    last.op = "message" /\ UserClosed(readyState[last.t]) => last.calls = <<>>

\* C40: a transport error notification emits exactly one signal under the
\* error key.
C40_OneErrorPerNotification ==
    last.op = "error"
        => Cardinality({i \in 1..Len(last.emitted) : last.emitted[i].key = "error"}) = 1

====
